---- MODULE Spec2Model ----
(***************************************************************************)
(* Model of etherscan-downloader (main.go): one run fetches a response     *)
(* body, decodes it (envelope or flat source), normalises the entries into *)
(* source bundles and writes every (bundle, path) pair to disk.            *)
(*                                                                         *)
(* A Go string is a sequence of one-character strings, so that the slice   *)
(* SourceCode[1:len-1], the JSON decoding and filepath.Join act on         *)
(* characters as the code does.                                            *)
(***************************************************************************)
EXTENDS Integers, Sequences, FiniteSets, TLC

\* ------------------------------------------------------------------------
\* Names fixed by the source: struct tags, field names, literals.
\* ------------------------------------------------------------------------
K_status == <<"s", "t", "a", "t", "u", "s">>
K_message == <<"m", "e", "s", "s", "a", "g", "e">>
K_result == <<"r", "e", "s", "u", "l", "t">>
K_SourceCode == <<"S", "o", "u", "r", "c", "e", "C", "o", "d", "e">>
K_ABI == <<"A", "B", "I">>
K_ContractName == <<"C", "o", "n", "t", "r", "a", "c", "t", "N", "a", "m", "e">>
K_CompilerVersion == <<"C", "o", "m", "p", "i", "l", "e", "r", "V", "e", "r", "s", "i", "o", "n">>
K_OptimizationUsed == <<"O", "p", "t", "i", "m", "i", "z", "a", "t", "i", "o", "n", "U", "s", "e", "d">>
K_Runs == <<"R", "u", "n", "s">>
K_ConstructorArguments == <<"C", "o", "n", "s", "t", "r", "u", "c", "t", "o", "r", "A", "r", "g", "u", "m", "e", "n", "t", "s">>
K_EVMVersion == <<"E", "V", "M", "V", "e", "r", "s", "i", "o", "n">>
K_Library == <<"L", "i", "b", "r", "a", "r", "y">>
K_LicenseType == <<"L", "i", "c", "e", "n", "s", "e", "T", "y", "p", "e">>
K_Proxy == <<"P", "r", "o", "x", "y">>
K_Implementation == <<"I", "m", "p", "l", "e", "m", "e", "n", "t", "a", "t", "i", "o", "n">>
K_SwarmSource == <<"S", "w", "a", "r", "m", "S", "o", "u", "r", "c", "e">>
K_IsOneSource == <<"I", "s", "O", "n", "e", "S", "o", "u", "r", "c", "e">>
K_language == <<"l", "a", "n", "g", "u", "a", "g", "e">>
K_sources == <<"s", "o", "u", "r", "c", "e", "s">>
K_settings == <<"s", "e", "t", "t", "i", "n", "g", "s">>
K_content == <<"c", "o", "n", "t", "e", "n", "t">>
K_optimizer == <<"o", "p", "t", "i", "m", "i", "z", "e", "r">>
K_outputSelection == <<"o", "u", "t", "p", "u", "t", "S", "e", "l", "e", "c", "t", "i", "o", "n">>
K_libraries == <<"l", "i", "b", "r", "a", "r", "i", "e", "s">>
K_enabled == <<"e", "n", "a", "b", "l", "e", "d">>
K_runs == <<"r", "u", "n", "s">>

\* The synthetic key of the flat-source and fallback bundles.
MainSol == <<"m", "a", "i", "n", ".", "s", "o", "l">>
\* The success sentinel of Response.Status.
StatusOK == <<"1">>
\* The two literal pieces of the format "bad status: %s, message: %s".
BadStatusPrefix == <<"b", "a", "d", " ", "s", "t", "a", "t", "u", "s", ":", " ">>
BadStatusInfix == <<",", " ", "m", "e", "s", "s", "a", "g", "e", ":", " ">>

\* ------------------------------------------------------------------------
\* Strings.
\* ------------------------------------------------------------------------
LowerCase == <<"a", "b", "c", "d", "e", "f", "g", "h", "i", "j", "k", "l", "m", "n", "o", "p", "q", "r", "s", "t", "u", "v", "w", "x", "y", "z">>
UpperCase == <<"A", "B", "C", "D", "E", "F", "G", "H", "I", "J", "K", "L", "M", "N", "O", "P", "Q", "R", "S", "T", "U", "V", "W", "X", "Y", "Z">>

\* Case folding of one character (ASCII letters).
FoldChar(c) ==
    IF \E i \in 1..26 : UpperCase[i] = c
    THEN LowerCase[CHOOSE i \in 1..26 : UpperCase[i] = c]
    ELSE c

\* strings.EqualFold restricted to ASCII, as encoding/json matches keys.
EqualFold(a, b) ==
    /\ Len(a) = Len(b)
    /\ \A i \in 1..Len(a) : FoldChar(a[i]) = FoldChar(b[i])

Max(S) == CHOOSE x \in S : \A y \in S : y <= x
Min(S) == CHOOSE x \in S : \A y \in S : x <= y

\* s has t at position i.
HasAt(s, i, t) ==
    /\ i + Len(t) - 1 <= Len(s)
    /\ \A k \in 1..Len(t) : s[i + k - 1] = t[k]

\* t occurs in s.
Contains(s, t) == \E i \in 1..(Len(s) + 1) : HasAt(s, i, t)

\* ------------------------------------------------------------------------
\* JSON text -> JSON value (the scanner of encoding/json on the subset of
\* JSON the sampled responses use: objects, arrays, strings with the
\* escapes \" \\ \/ \n \t, integers, true, false, null, white space).
\* A value is [t, s, el]: t its kind, s the characters of a string, el the
\* elements of an array or the members [k, v] of an object.
\* ------------------------------------------------------------------------
JNull == [t |-> "null", s |-> <<>>, el |-> <<>>]
JBool(b) == [t |-> IF b THEN "true" ELSE "false", s |-> <<>>, el |-> <<>>]
JNum == [t |-> "num", s |-> <<>>, el |-> <<>>]
JStr(s) == [t |-> "str", s |-> s, el |-> <<>>]
JArr(el) == [t |-> "arr", s |-> <<>>, el |-> el]
JObj(el) == [t |-> "obj", s |-> <<>>, el |-> el]

WhiteSpace == {" ", "\n", "\t", "\r"}
Digits == {"0", "1", "2", "3", "4", "5", "6", "7", "8", "9"}

\* A parse result: ok, the value, and the position after it.
ParseFail(i) == [ok |-> FALSE, v |-> JNull, i |-> i]
ParseOK(v, i) == [ok |-> TRUE, v |-> v, i |-> i]

\* The first position from i on that holds no white space.
SkipWS(s, i) ==
    LET rest == {j \in i..Len(s) : s[j] \notin WhiteSpace} IN
    IF rest = {} THEN Len(s) + 1 ELSE Min(rest)

\* What an escape sequence \c stands for.
Unescape(c) ==
    CASE c = "n" -> "\n"
      [] c = "t" -> "\t"
      [] OTHER -> c

\* Inside a string literal whose first character is at i: the number of
\* backslashes in a row that end just before position k.
RECURSIVE BackslashRun(_, _, _)
BackslashRun(s, i, k) ==
    IF k > i /\ s[k - 1] = "\\" THEN 1 + BackslashRun(s, i, k - 1) ELSE 0

\* Position k is the character of an escape sequence (it follows the
\* backslash that introduces the escape).
Escaped(s, i, k) == BackslashRun(s, i, k) % 2 = 1

\* Position k is the backslash that introduces an escape sequence.
Escaping(s, i, k) == s[k] = "\\" /\ ~Escaped(s, i, k)

\* The closing quote of the literal: the first quote that is not escaped
\* (0: the literal is not closed).
StringEnd(s, i) ==
    LET q == {j \in i..Len(s) : s[j] = "\"" /\ ~Escaped(s, i, j)} IN
    IF q = {} THEN 0 ELSE Min(q)

\* The characters positions lo..hi of the literal stand for.
RECURSIVE Unescaped(_, _, _, _)
Unescaped(s, i, lo, hi) ==
    IF lo > hi THEN <<>>
    ELSE IF lo = hi THEN
        IF Escaping(s, i, lo) THEN <<>>
        ELSE IF Escaped(s, i, lo) THEN << Unescape(s[lo]) >>
        ELSE << s[lo] >>
    ELSE LET mid == (lo + hi) \div 2 IN
         Unescaped(s, i, lo, mid) \o Unescaped(s, i, mid + 1, hi)

\* The literal that ends at the closing quote e (0: it is not closed): no
\* raw control character, and only the escapes \" \\ \/ \n \t.
StringUpTo(s, i, e) ==
    IF e = 0 THEN ParseFail(Len(s) + 1)
    ELSE IF \E k \in i..(e - 1) :
               \/ s[k] \in {"\n", "\t", "\r"}
               \/ Escaped(s, i, k) /\ s[k] \notin {"\"", "\\", "/", "n", "t"}
         THEN ParseFail(i)
    ELSE ParseOK(JStr(Unescaped(s, i, i, e - 1)), e + 1)

\* A string literal, i being the position after its opening quote.
ParseString(s, i) == StringUpTo(s, i, StringEnd(s, i))

\* The first position from i on that holds no digit.
SkipDigits(s, i) ==
    LET rest == {j \in i..Len(s) : s[j] \notin Digits} IN
    IF rest = {} THEN Len(s) + 1 ELSE Min(rest)

\* An integer, i being the position after its minus sign if it has one:
\* 0, or a digit 1-9 and more digits.
ParseDigits(s, i) ==
    IF i > Len(s) \/ s[i] \notin Digits THEN ParseFail(i)
    ELSE IF s[i] = "0" THEN ParseOK(JNum, i + 1)
    ELSE ParseOK(JNum, SkipDigits(s, i + 1))

ParseNumber(s, i) == ParseDigits(s, IF s[i] = "-" THEN i + 1 ELSE i)

\* The scanner proper.  Every step takes what the step before it found as
\* a parameter: the position i of the next character that is not white
\* space, the key k, the value v, the members or elements acc so far.
RECURSIVE ParseValue(_, _), ValueAt(_, _), ObjectAt(_, _), ArrayAt(_, _)
RECURSIVE ParseMembers(_, _, _), AfterKey(_, _, _), AfterColon(_, _, _, _)
RECURSIVE AfterMember(_, _, _, _), MoreMembers(_, _, _)
RECURSIVE ParseElems(_, _, _), AfterElem(_, _, _), MoreElems(_, _, _)

\* The value that starts at or after position i0.
ParseValue(s, i0) == ValueAt(s, SkipWS(s, i0))

ValueAt(s, i) ==
    IF i > Len(s) THEN ParseFail(i)
    ELSE CASE s[i] = "{" -> ObjectAt(s, SkipWS(s, i + 1))
           [] s[i] = "[" -> ArrayAt(s, SkipWS(s, i + 1))
           [] s[i] = "\"" -> ParseString(s, i + 1)
           [] HasAt(s, i, << "t", "r", "u", "e" >>) -> ParseOK(JBool(TRUE), i + 4)
           [] HasAt(s, i, << "f", "a", "l", "s", "e" >>) -> ParseOK(JBool(FALSE), i + 5)
           [] HasAt(s, i, << "n", "u", "l", "l" >>) -> ParseOK(JNull, i + 4)
           [] s[i] \in Digits \cup {"-"} -> ParseNumber(s, i)
           [] OTHER -> ParseFail(i)

\* After "{": the empty object, or members.
ObjectAt(s, i) ==
    IF i <= Len(s) /\ s[i] = "}" THEN ParseOK(JObj(<<>>), i + 1)
    ELSE ParseMembers(s, i, <<>>)

\* A member starts with its key, a string.
ParseMembers(s, i, acc) ==
    IF i > Len(s) \/ s[i] # "\"" THEN ParseFail(i)
    ELSE AfterKey(s, ParseString(s, i + 1), acc)

AfterKey(s, k, acc) ==
    IF ~k.ok THEN ParseFail(k.i)
    ELSE AfterColon(s, k, SkipWS(s, k.i), acc)

AfterColon(s, k, i, acc) ==
    IF i > Len(s) \/ s[i] # ":" THEN ParseFail(i)
    ELSE AfterMember(s, k, ParseValue(s, i + 1), acc)

AfterMember(s, k, v, acc) ==
    IF ~v.ok THEN ParseFail(v.i)
    ELSE MoreMembers(s, SkipWS(s, v.i), Append(acc, [k |-> k.v.s, v |-> v.v]))

MoreMembers(s, i, acc) ==
    IF i > Len(s) THEN ParseFail(i)
    ELSE IF s[i] = "," THEN ParseMembers(s, SkipWS(s, i + 1), acc)
    ELSE IF s[i] = "}" THEN ParseOK(JObj(acc), i + 1)
    ELSE ParseFail(i)

\* After "[": the empty array, or elements.
ArrayAt(s, i) ==
    IF i <= Len(s) /\ s[i] = "]" THEN ParseOK(JArr(<<>>), i + 1)
    ELSE ParseElems(s, i, <<>>)

ParseElems(s, i, acc) == AfterElem(s, ValueAt(s, i), acc)

AfterElem(s, v, acc) ==
    IF ~v.ok THEN ParseFail(v.i)
    ELSE MoreElems(s, SkipWS(s, v.i), Append(acc, v.v))

MoreElems(s, i, acc) ==
    IF i > Len(s) THEN ParseFail(i)
    ELSE IF s[i] = "," THEN ParseElems(s, SkipWS(s, i + 1), acc)
    ELSE IF s[i] = "]" THEN ParseOK(JArr(acc), i + 1)
    ELSE ParseFail(i)

\* json.NewDecoder(r).Decode: the first JSON value of the stream; what
\* follows it is left unread.
DecoderScan(s) == ParseValue(s, 1)

\* Only white space follows the value.
WholeInput(s, r) ==
    IF r.ok /\ SkipWS(s, r.i) > Len(s) THEN r ELSE ParseFail(r.i)

\* json.Unmarshal: the whole input must be one JSON value (white space
\* around it allowed).
UnmarshalScan(s) == WholeInput(s, ParseValue(s, 1))

\* ------------------------------------------------------------------------
\* JSON value -> Go struct (encoding/json's decoding into the types of
\* main.go).  A JSON null leaves the destination as it is; a value of the
\* wrong kind for a known field is an UnmarshalTypeError, which Decode and
\* Unmarshal return after the rest was decoded; unknown keys are skipped.
\* ------------------------------------------------------------------------
\* The name no struct field has: the key matches no field.
NoField == <<>>

\* The struct field a key is decoded into: the field of that exact name,
\* else the first field equal to it under case folding.
FieldOf(key, fields) ==
    IF \E i \in 1..Len(fields) : fields[i] = key THEN key
    ELSE IF \E i \in 1..Len(fields) : EqualFold(fields[i], key)
    THEN fields[CHOOSE i \in 1..Len(fields) :
                  /\ EqualFold(fields[i], key)
                  /\ \A j \in 1..(i - 1) : ~EqualFold(fields[j], key)]
    ELSE NoField

\* The members of object value v decoded into field f that carry a value of
\* one of the kinds.
Hits(v, fields, f, kinds) ==
    {i \in 1..Len(v.el) : FieldOf(v.el[i].k, fields) = f /\ v.el[i].v.t \in kinds}

\* A string field after the object's members were decoded in order: the
\* last string given for it, else the zero value.
StringField(v, fields, f) ==
    LET h == Hits(v, fields, f, {"str"}) IN
    IF h = {} THEN <<>> ELSE v.el[Max(h)].v.s

\* A bool field, likewise.
BoolField(v, fields, f) ==
    LET h == Hits(v, fields, f, {"true", "false"}) IN
    IF h = {} THEN FALSE ELSE v.el[Max(h)].v.t = "true"

\* Some member decoded into field f carries a value outside the kinds.
FieldTypeError(v, fields, f, kinds) ==
    \E i \in 1..Len(v.el) :
        FieldOf(v.el[i].k, fields) = f /\ v.el[i].v.t \notin (kinds \cup {"null"})

\* type RawCode: thirteen tagged string fields and the untagged IsOneSource,
\* which encoding/json decodes from the key "IsOneSource".
RawCodeStrings ==
    << K_SourceCode, K_ABI, K_ContractName, K_CompilerVersion, K_OptimizationUsed,
       K_Runs, K_ConstructorArguments, K_EVMVersion, K_Library, K_LicenseType,
       K_Proxy, K_Implementation, K_SwarmSource >>

RawCodeFields == RawCodeStrings \o << K_IsOneSource >>

\* A *RawCode; the fields the program reads.  nil is the nil pointer.
RawCode(src, one) == [nil |-> FALSE, SourceCode |-> src, IsOneSource |-> one]
NilRawCode == [nil |-> TRUE, SourceCode |-> <<>>, IsOneSource |-> FALSE]

DecodeRawCode(v) ==
    RawCode(StringField(v, RawCodeFields, K_SourceCode),
            BoolField(v, RawCodeFields, K_IsOneSource))

RawCodeTypeError(v) ==
    \/ \E n \in 1..Len(RawCodeStrings) :
          FieldTypeError(v, RawCodeFields, RawCodeStrings[n], {"str"})
    \/ FieldTypeError(v, RawCodeFields, K_IsOneSource, {"true", "false"})

\* []*RawCode from an array: an object is a new RawCode, null a nil pointer.
DecodeCodes(a) ==
    [i \in 1..Len(a.el) |->
        IF a.el[i].t = "obj" THEN DecodeRawCode(a.el[i]) ELSE NilRawCode]

CodesTypeError(a) ==
    \E i \in 1..Len(a.el) :
        \/ a.el[i].t \notin {"obj", "null"}
        \/ a.el[i].t = "obj" /\ RawCodeTypeError(a.el[i])

\* type Response.
ResponseFields == << K_status, K_message, K_result >>

Response(st, msg, codes) == [Status |-> st, Message |-> msg, Codes |-> codes]

DecodeResponse(v) ==
    IF v.t # "obj" THEN Response(<<>>, <<>>, <<>>)
    ELSE
      LET h == Hits(v, ResponseFields, K_result, {"arr"}) IN
      Response(StringField(v, ResponseFields, K_status),
               StringField(v, ResponseFields, K_message),
               IF h = {} THEN <<>> ELSE DecodeCodes(v.el[Max(h)].v))

ResponseTypeError(v) ==
    \/ v.t \notin {"obj", "null"}
    \/ /\ v.t = "obj"
       /\ \/ FieldTypeError(v, ResponseFields, K_status, {"str"})
          \/ FieldTypeError(v, ResponseFields, K_message, {"str"})
          \/ FieldTypeError(v, ResponseFields, K_result, {"arr"})
          \/ \E i \in Hits(v, ResponseFields, K_result, {"arr"}) :
                CodesTypeError(v.el[i].v)

\* type Contract; nil is the nil pointer a JSON null leaves in the map.
Contract(c) == [nil |-> FALSE, Content |-> c]
NilContract == [nil |-> TRUE, Content |-> <<>>]
ContractFields == << K_content >>

DecodeContract(v) ==
    IF v.t = "obj" THEN Contract(StringField(v, ContractFields, K_content))
    ELSE NilContract

ContractTypeError(v) ==
    \/ v.t \notin {"obj", "null"}
    \/ v.t = "obj" /\ FieldTypeError(v, ContractFields, K_content, {"str"})

\* type Sources map[string]*Contract: the empty (or nil) map.
NoSources == [p \in {} |-> NilContract]

\* The members of every object given for the field, in order: a map is
\* decoded into key by key, a later key replacing an earlier one.
RECURSIVE SourcesMembers(_, _, _)
SourcesMembers(v, fields, i) ==
    IF i > Len(v.el) THEN <<>>
    ELSE (IF FieldOf(v.el[i].k, fields) = K_sources /\ v.el[i].v.t = "obj"
          THEN v.el[i].v.el ELSE <<>>) \o SourcesMembers(v, fields, i + 1)

DecodeSources(m) ==
    [p \in {m[i].k : i \in 1..Len(m)} |->
        DecodeContract(m[Max({i \in 1..Len(m) : m[i].k = p})].v)]

\* type Optimizer, type OutputSelection, type Libraries (interface{}: any
\* value), type Settings: decoded and carried, never read by the program;
\* only a value of the wrong kind matters, as a decoding error.
OptimizerFields == << K_enabled, K_runs >>

OptimizerTypeError(v) ==
    \/ v.t \notin {"obj", "null"}
    \/ /\ v.t = "obj"
       /\ \/ FieldTypeError(v, OptimizerFields, K_enabled, {"true", "false"})
          \/ FieldTypeError(v, OptimizerFields, K_runs, {"num"})

StringListTypeError(v) ==
    \/ v.t \notin {"arr", "null"}
    \/ v.t = "arr" /\ \E i \in 1..Len(v.el) : v.el[i].t \notin {"str", "null"}

StringListMapTypeError(v) ==
    \/ v.t \notin {"obj", "null"}
    \/ v.t = "obj" /\ \E i \in 1..Len(v.el) : StringListTypeError(v.el[i].v)

OutputSelectionTypeError(v) ==
    \/ v.t \notin {"obj", "null"}
    \/ v.t = "obj" /\ \E i \in 1..Len(v.el) : StringListMapTypeError(v.el[i].v)

SettingsFields == << K_optimizer, K_outputSelection, K_libraries >>

SettingsTypeError(v) ==
    \/ v.t \notin {"obj", "null"}
    \/ /\ v.t = "obj"
       /\ \E i \in 1..Len(v.el) :
             LET f == FieldOf(v.el[i].k, SettingsFields) IN
             \/ f = K_optimizer /\ OptimizerTypeError(v.el[i].v)
             \/ f = K_outputSelection /\ OutputSelectionTypeError(v.el[i].v)

\* type SourceCode (the standard-json-input document).
SourceCodeFields == << K_language, K_sources, K_settings >>

SourceCode(srcs) == [Sources |-> srcs]

DecodeSourceCode(v) ==
    IF v.t # "obj" THEN SourceCode(NoSources)
    ELSE SourceCode(DecodeSources(SourcesMembers(v, SourceCodeFields, 1)))

SourceCodeTypeError(v) ==
    \/ v.t \notin {"obj", "null"}
    \/ /\ v.t = "obj"
       /\ \/ FieldTypeError(v, SourceCodeFields, K_language, {"str"})
          \/ \E i \in 1..Len(v.el) :
                LET f == FieldOf(v.el[i].k, SourceCodeFields) IN
                \/ /\ f = K_sources
                   /\ \/ v.el[i].v.t \notin {"obj", "null"}
                      \/ /\ v.el[i].v.t = "obj"
                         /\ \E j \in 1..Len(v.el[i].v.el) :
                               ContractTypeError(v.el[i].v.el[j].v)
                \/ f = K_settings /\ SettingsTypeError(v.el[i].v)

\* json.NewDecoder(bytes.NewBuffer(bs)).Decode(contractCodeResponse).
ResponseFrom(r) ==
    IF ~r.ok THEN [err |-> TRUE, val |-> Response(<<>>, <<>>, <<>>)]
    ELSE [err |-> ResponseTypeError(r.v), val |-> DecodeResponse(r.v)]

DecodeEnvelope(bs) == ResponseFrom(DecoderScan(bs))

\* json.Unmarshal(data, sourceCode) into a fresh SourceCode.
SourceCodeFrom(r) ==
    IF ~r.ok THEN [err |-> TRUE, val |-> SourceCode(NoSources)]
    ELSE [err |-> SourceCodeTypeError(r.v), val |-> DecodeSourceCode(r.v)]

UnmarshalSourceCode(data) == SourceCodeFrom(UnmarshalScan(data))

\* ------------------------------------------------------------------------
\* Paths (path/filepath on a system whose separator is "/").
\* ------------------------------------------------------------------------
Sep == "/"

\* The elements of s between separators.
SplitPath(s) ==
    LET seps == {i \in 1..Len(s) : s[i] = Sep}
        \* the n-th separator; the 0-th and the last are the ends of s
        at(n) == IF n = 0 THEN 0
                 ELSE IF n > Cardinality(seps) THEN Len(s) + 1
                 ELSE CHOOSE p \in seps : Cardinality({q \in seps : q <= p}) = n
    IN  [n \in 1..(Cardinality(seps) + 1) |-> SubSeq(s, at(n - 1) + 1, at(n) - 1)]

\* filepath.Clean on the elements of a relative path: empty and "."
\* elements go, ".." removes the element before it, a leading ".." stays.
RECURSIVE CleanElems(_, _, _)
CleanElems(el, i, out) ==
    IF i > Len(el) THEN out
    ELSE IF el[i] = <<>> \/ el[i] = << "." >> THEN CleanElems(el, i + 1, out)
    ELSE IF el[i] = << ".", "." >> /\ Len(out) > 0 /\ out[Len(out)] # << ".", "." >>
         THEN CleanElems(el, i + 1, SubSeq(out, 1, Len(out) - 1))
    ELSE CleanElems(el, i + 1, Append(out, el[i]))

RECURSIVE JoinElems(_, _)
JoinElems(el, i) ==
    IF i > Len(el) THEN <<>>
    ELSE IF i = Len(el) THEN el[i]
    ELSE el[i] \o << Sep >> \o JoinElems(el, i + 1)

\* A cleaned path from its elements; the empty path is ".".
PathOf(el) == IF el = <<>> THEN << "." >> ELSE JoinElems(el, 1)

\* filepath.Join(rootDir, dir, path), rootDir and dir non-empty and
\* relative: the non-empty elements joined by the separator, then Clean.
targetPath(rootDir, dir, name) ==
    LET joined == rootDir \o << Sep >> \o dir
                    \o (IF name = <<>> THEN <<>> ELSE << Sep >> \o name)
    IN  PathOf(CleanElems(SplitPath(joined), 1, <<>>))

\* filepath.Dir of a cleaned relative path: all but its last element.
Dir(p) ==
    LET el == SplitPath(p) IN PathOf(SubSeq(el, 1, Len(el) - 1))

targetDir(rootDir, dir, name) == Dir(targetPath(rootDir, dir, name))

\* A directory path and the directories above it.
Ancestors(d) ==
    LET el == SplitPath(d) IN
    {PathOf(SubSeq(el, 1, n)) : n \in 1..Len(el)}

\* ------------------------------------------------------------------------
\* The responses an explorer can give: JSON text built as the explorer
\* serialises it (the SourceCode of an entry is a JSON string, so the
\* document inside it is escaped), or text that is not JSON.
\* ------------------------------------------------------------------------
RECURSIVE JSONEscape(_, _, _)
JSONEscape(s, lo, hi) ==
    IF lo > hi THEN <<>>
    ELSE IF lo = hi THEN
        CASE s[lo] = "\"" -> << "\\", "\"" >>
          [] s[lo] = "\\" -> << "\\", "\\" >>
          [] s[lo] = "\n" -> << "\\", "n" >>
          [] OTHER -> << s[lo] >>
    ELSE LET mid == (lo + hi) \div 2 IN
         JSONEscape(s, lo, mid) \o JSONEscape(s, mid + 1, hi)

Quote(s) == << "\"" >> \o JSONEscape(s, 1, Len(s)) \o << "\"" >>

RECURSIVE Commas(_, _)
Commas(texts, i) ==
    IF i > Len(texts) THEN <<>>
    ELSE IF i = Len(texts) THEN texts[i]
    ELSE texts[i] \o << "," >> \o Commas(texts, i + 1)

TextObj(members) == << "{" >> \o Commas(members, 1) \o << "}" >>
TextArr(elems) == << "[" >> \o Commas(elems, 1) \o << "]" >>
Member(k, text) == Quote(k) \o << ":" >> \o text
TextTrue == << "t", "r", "u", "e" >>
TextNull == << "n", "u", "l", "l" >>

\* The sources member of a document, for <<path, content>> pairs.
SourcesText(srcs) ==
    Member(K_sources,
           TextObj([i \in 1..Len(srcs) |->
               Member(srcs[i][1],
                      TextObj(<< Member(K_content, Quote(srcs[i][2])) >>))]))

\* A standard-json-input document with only its sources.
DocText(srcs) == TextObj(<< SourcesText(srcs) >>)

\* A document with language and settings too.
FullDocText(srcs) ==
    TextObj(<<
        Member(K_language, Quote(<< "S", "o", "l" >>)),
        SourcesText(srcs),
        Member(K_settings,
               TextObj(<< Member(K_optimizer,
                                 TextObj(<< Member(K_enabled, TextTrue),
                                            Member(K_runs, << "2", "0", "0" >>) >>)) >>))
    >>)

\* The explorer's extra pair of braces around a document.
Wrap(doc) == << "{" >> \o doc \o << "}" >>

\* One element of the result list.
EntryText(src) ==
    TextObj(<< Member(K_SourceCode, Quote(src)), Member(K_ABI, Quote(<< "[", "]" >>)) >>)

EnvelopeText(st, msg, entries) ==
    TextObj(<< Member(K_status, Quote(st)),
               Member(K_message, Quote(msg)),
               Member(K_result, TextArr(entries)) >>)

P_A == << "A", ".", "s", "o", "l" >>
P_DotA == << ".", "/", "A", ".", "s", "o", "l" >>
P_B == << "B", ".", "s", "o", "l" >>
P_LibC == << "l", "i", "b", "/", "C", ".", "s", "o", "l" >>
S_a == << "a", ";" >>
S_b == << "b", ";" >>
S_c == << "c", ";" >>
S_flat == << "c", "o", "n", " ", "A", " ", "{", "}" >>
M_OK == << "O", "K" >>
M_NOTOK == << "N", "O", "T", "O", "K" >>

DocA == DocText(<< << P_A, S_a >> >>)
DocBC == FullDocText(<< << P_B, S_b >>, << P_LibC, S_c >> >>)
DocA2 == DocText(<< << P_A, S_b >> >>)
DocClash == DocText(<< << P_A, S_a >>, << P_DotA, S_b >> >>)
DocNilContract == TextObj(<< Member(K_sources, TextObj(<< Member(P_A, TextNull) >>)) >>)
DocBadSettings == TextObj(<< Member(K_sources, TextObj(<<>>)), Member(K_settings, TextTrue) >>)

\* Bodies that are not JSON at all.
PlainBodies ==
    { <<>>,                                   \* an empty body
      << "x" >>,                              \* one character
      S_flat,                                 \* raw source text
      Wrap(DocA) }                            \* a wrapped document, unenveloped

\* Valid JSON that is not an envelope: the result is a string, as the
\* explorer answers a bad API key; a JSON array.
NonEnvelopeBodies ==
    { TextObj(<< Member(K_status, Quote(<< "0" >>)),
                 Member(K_message, Quote(M_NOTOK)),
                 Member(K_result, Quote(<< "b", "a", "d", " ", "k", "e", "y" >>)) >>),
      TextArr(<<>>) }

\* Envelopes that report failure.
FailureBodies ==
    { EnvelopeText(<< "0" >>, M_NOTOK, <<>>),
      EnvelopeText(<< "2" >>, M_OK, << EntryText(Wrap(DocA)) >>),
      TextObj(<<>>),
      TextNull }

\* Envelopes that report success.
SuccessBodies ==
    { EnvelopeText(StatusOK, M_OK, <<>>),
      EnvelopeText(StatusOK, M_OK, << EntryText(Wrap(DocA)) >>),
      EnvelopeText(StatusOK, M_OK, << EntryText(Wrap(DocA)), EntryText(Wrap(DocBC)) >>),
      EnvelopeText(StatusOK, M_OK, << EntryText(Wrap(DocA)), EntryText(Wrap(DocA2)) >>),
      EnvelopeText(StatusOK, M_OK, << EntryText(Wrap(DocClash)) >>),
      EnvelopeText(StatusOK, M_OK, << EntryText(S_flat) >>),
      EnvelopeText(StatusOK, M_OK, << EntryText(Wrap(DocA)), EntryText(S_flat) >>),
      EnvelopeText(StatusOK, M_OK, << EntryText(Wrap(DocBC)), EntryText(Wrap(DocBadSettings)) >>),
      EnvelopeText(StatusOK, M_OK, << EntryText(Wrap(TextObj(<<>>))) >>),
      EnvelopeText(StatusOK, M_OK, << EntryText(Wrap(DocNilContract)) >>),
      EnvelopeText(StatusOK, M_OK, << EntryText(<<>>) >>),
      EnvelopeText(StatusOK, M_OK, << EntryText(<< "x" >>), EntryText(S_flat) >>),
      EnvelopeText(StatusOK, M_OK, << TextNull >>),
      EnvelopeText(StatusOK, M_OK,
          << TextObj(<< Member(K_SourceCode, Quote(Wrap(DocA))),
                        Member(K_IsOneSource, TextTrue) >>) >>) }

Bodies == PlainBodies \cup NonEnvelopeBodies \cup FailureBodies \cup SuccessBodies

\* ------------------------------------------------------------------------
\* The program.
\* ------------------------------------------------------------------------
\* How many times the process is run in a row, and how many operations of
\* the environment (the GET, a filesystem call) may fail.
MaxRuns == 2
MaxFaults == 1

\* The configuration config.json gives: Config.ContractDir, Config.Target.
ContractDir == << "o", "u", "t" >>
Target == << "t", "k" >>

\* An error value; nil is no error.
NoErr == [kind |-> "nil", msg |-> <<>>]
Err(kind, msg) == [kind |-> kind, msg |-> msg]

\* The entry getRawContractCode makes of a body that does not decode.
FlatEntryUnflagged(bs) == RawCode(bs, FALSE)
FlatEntry(bs) == RawCode(bs, TRUE)

\* contractCodeResponse.Status != "1"
StatusIsBadOnlyZero(st) == st = << "0" >>
StatusIsBad(st) == st # StatusOK

\* fmt.Errorf("bad status: %s, message: %s", Status, Status)
BadStatusError(resp) ==
    Err("status", BadStatusPrefix \o resp.Status \o BadStatusInfix \o resp.Status)

\* getRawContractCode once the body bs was read: the entries and the error.
\* d: what Decode made of the body, and its error.
afterDecode(bs, d) ==
    IF d.err THEN [codes |-> << FlatEntry(bs) >>, err |-> NoErr]
    ELSE IF StatusIsBad(d.val.Status)
         THEN [codes |-> <<>>, err |-> BadStatusError(d.val)]
    ELSE [codes |-> d.val.Codes, err |-> NoErr]

getRawContractCode(bs) == afterDecode(bs, DecodeEnvelope(bs))

\* The bundle with the single key "main.sol".
MainBundle(src) == SourceCode([p \in {MainSol} |-> Contract(src)])

\* s[1:len(s)-1] is in range (otherwise the slice expression panics).
SliceInRange(s) == 1 <= Len(s) - 1
Strip(s) == SubSeq(s, 2, Len(s) - 1)

\* The loop of parseContractCode from entry i on, acc the bundles so far.
\* A nil entry, or a SourceCode shorter than two characters, panics.
\* u is what json.Unmarshal made of entry i, and its error.
RECURSIVE parseLoop(_, _, _), afterUnmarshal(_, _, _, _)
parseLoop(codes, i, acc) ==
    IF i > Len(codes) THEN [panic |-> FALSE, val |-> acc]
    ELSE IF codes[i].nil \/ ~SliceInRange(codes[i].SourceCode)
         THEN [panic |-> TRUE, val |-> <<>>]
    ELSE afterUnmarshal(codes, i, acc,
                        UnmarshalSourceCode(Strip(codes[i].SourceCode)))

afterUnmarshal(codes, i, acc, u) ==
    IF u.err
    THEN [panic |-> FALSE, val |-> << MainBundle(codes[1].SourceCode) >>]
    ELSE parseLoop(codes, i + 1, Append(acc, u.val))

parseContractCode(codes) ==
    IF Len(codes) = 1 /\ codes[1].nil
    THEN [panic |-> TRUE, val |-> <<>>]
    ELSE IF Len(codes) = 1 /\ codes[1].IsOneSource
    THEN [panic |-> FALSE, val |-> << MainBundle(codes[1].SourceCode) >>]
    ELSE parseLoop(codes, 1, <<>>)

\* The filesystem: the content of every file, and the directories.
NoFiles == [p \in {} |-> <<>>]

\* os.Create: the file exists and is empty.
Created(fs, p) == [q \in DOMAIN fs \cup {p} |-> IF q = p THEN <<>> ELSE fs[q]]

\* f.Write on the file just created: the bytes go in at offset 0.
Written(fs, p, data) ==
    [q \in DOMAIN fs |->
        IF q = p THEN data \o SubSeq(fs[q], Len(data) + 1, Len(fs[q])) ELSE fs[q]]

VARIABLES
    body,         \* what the explorer answers the GET with
    configOK,     \* whether config.json can be read and decoded
    files, dirs,  \* the filesystem
    run,          \* which run of the process this is
    pc,           \* where the run is
    received,     \* the body was read in this run
    decodeErr,    \* getRawContractCode: Decode returned an error
    response,     \* getRawContractCode: contractCodeResponse, its Status and Message
    rawCodes,     \* run(): rawCodes
    parsed,       \* parseContractCode returned in this run
    sourceCodes,  \* run(): sourceCodes
    bi,           \* the index of the bundle the outer loop is at
    todo,         \* the paths of that bundle the inner loop has yet to visit
    path,         \* the inner loop's path
    err,          \* the error run() returns
    exitCode,     \* the exit status of the process (-1: still running)
    stderr,       \* what the process wrote to standard error
    panicAt,      \* where the run panicked: "none", "parse", "write"
    faults,       \* failures of the environment so far
    fsOps,        \* filesystem calls made in this run
    failed,       \* the first filesystem call that failed in this run
    after,        \* filesystem calls made in this run after that failure
    snap          \* the filesystem as the first run left it

vars == << body, configOK, files, dirs, run, pc, received, decodeErr, response,
           rawCodes, parsed,
           sourceCodes, bi, todo, path, err, exitCode, stderr, panicAt,
           faults, fsOps, failed, after, snap >>

world == << body, configOK >>
loopVars == << bi, todo, path >>
fetchVars == << received, decodeErr, response, rawCodes >>
parseVars == << parsed, sourceCodes >>
fsVars == << files, dirs >>
fsHistory == << fsOps, failed, after >>

RunStart ==
    /\ pc = "main"
    /\ received = FALSE
    /\ decodeErr = FALSE
    /\ response = [Status |-> <<>>, Message |-> <<>>]
    /\ rawCodes = <<>>
    /\ parsed = FALSE
    /\ sourceCodes = <<>>
    /\ bi = 0
    /\ todo = {}
    /\ path = <<>>
    /\ err = NoErr
    /\ exitCode = -1
    /\ stderr = <<>>
    /\ panicAt = "none"
    /\ fsOps = 0
    /\ failed = "none"
    /\ after = 0

Init ==
    /\ body \in Bodies
    /\ configOK \in BOOLEAN
    /\ files = NoFiles
    /\ dirs = {}
    /\ run = 1
    /\ faults = 0
    /\ snap = [files |-> NoFiles, dirs |-> {}]
    /\ RunStart

\* The process ends: os.Exit, the return of main, or a panic.
\* The state a run starts in, as the next state.
RunStarts ==
    /\ pc' = "main"
    /\ received' = FALSE
    /\ decodeErr' = FALSE
    /\ response' = [Status |-> <<>>, Message |-> <<>>]
    /\ rawCodes' = <<>>
    /\ parsed' = FALSE
    /\ sourceCodes' = <<>>
    /\ bi' = 0
    /\ todo' = {}
    /\ path' = <<>>
    /\ err' = NoErr
    /\ exitCode' = -1
    /\ stderr' = <<>>
    /\ panicAt' = "none"
    /\ fsOps' = 0
    /\ failed' = "none"
    /\ after' = 0

ProcessEnds(code, text, fs, ds) ==
    /\ pc' = "exited"
    /\ exitCode' = code
    /\ stderr' = text
    /\ snap' = IF run = 1 THEN [files |-> fs, dirs |-> ds] ELSE snap

\* The keys of bundle i, none when there is no such bundle.
Keys(codes, i) == IF i <= Len(codes) THEN DOMAIN codes[i].Sources ELSE {}

\* A filesystem call is made; ok tells whether it succeeded.
FsCall(name, ok) ==
    /\ fsOps' = fsOps + 1
    /\ failed' = IF failed = "none" /\ ~ok THEN name ELSE failed
    /\ after' = IF failed # "none" THEN after + 1 ELSE after

\* run(): c, err := loadConfig()
LoadConfig ==
    /\ pc = "main"
    /\ IF configOK
       THEN pc' = "fetch" /\ err' = err
       ELSE pc' = "ret" /\ err' = Err("config", <<>>)
    /\ UNCHANGED << world, fsVars, run, fetchVars, parseVars, loopVars,
                    exitCode, stderr, panicAt, faults, fsHistory, snap >>

\* run(): rawCodes, err := getRawContractCode(...), the GET and the read of
\* the body having succeeded.
\* What Decode left in contractCodeResponse.
Decoded(d) ==
    /\ decodeErr' = d.err
    /\ response' = [Status |-> d.val.Status, Message |-> d.val.Message]

Fetched(r) ==
    /\ received' = TRUE
    /\ rawCodes' = r.codes
    /\ err' = r.err
    /\ pc' = IF r.err = NoErr THEN "parse" ELSE "ret"

Fetch ==
    /\ pc = "fetch"
    /\ Decoded(DecodeEnvelope(body))
    /\ Fetched(getRawContractCode(body))
    /\ UNCHANGED << world, fsVars, run, parseVars, loopVars, exitCode, stderr,
                    panicAt, faults, fsHistory, snap >>

\* getRawContractCode: the GET or the read of the body fails.
FetchFails ==
    /\ pc = "fetch"
    /\ faults < MaxFaults
    /\ faults' = faults + 1
    /\ err' = Err("transport", <<>>)
    /\ pc' = "ret"
    /\ UNCHANGED << world, fsVars, run, fetchVars, parseVars, loopVars,
                    exitCode, stderr, panicAt, fsHistory, snap >>

\* run(): sourceCodes, err := parseContractCode(rawCodes), then the loops
\* are entered.
Parsed(r) ==
    IF r.panic
    THEN /\ panicAt' = "parse"
         /\ ProcessEnds(2, <<>>, files, dirs)
         /\ UNCHANGED << parseVars, loopVars >>
    ELSE /\ parsed' = TRUE
         /\ sourceCodes' = r.val
         /\ bi' = 1
         /\ todo' = Keys(r.val, 1)
         /\ pc' = "range"
         /\ UNCHANGED << path, exitCode, stderr, panicAt, snap >>

Parse ==
    /\ pc = "parse"
    /\ Parsed(parseContractCode(rawCodes))
    /\ UNCHANGED << world, fsVars, run, fetchVars, err, faults, fsHistory >>

\* for path, source := range sourceCode.Sources: the next path, in the
\* order the map iteration happens to take.
NextPath ==
    /\ pc = "range"
    /\ bi <= Len(sourceCodes)
    /\ \E p \in todo :
          /\ path' = p
          /\ todo' = todo \ {p}
    /\ pc' = "mkdir"
    /\ UNCHANGED << world, fsVars, run, fetchVars, parseVars, bi, err, exitCode,
                    stderr, panicAt, faults, fsHistory, snap >>

\* for _, sourceCode := range sourceCodes: the next bundle.
NextBundle ==
    /\ pc = "range"
    /\ bi <= Len(sourceCodes)
    /\ todo = {}
    /\ bi' = bi + 1
    /\ todo' = Keys(sourceCodes, bi + 1)
    /\ UNCHANGED << world, fsVars, run, pc, fetchVars, parseVars, path, err,
                    exitCode, stderr, panicAt, faults, fsHistory, snap >>

\* The loops are over: return nil.
LoopsDone ==
    /\ pc = "range"
    /\ bi > Len(sourceCodes)
    /\ pc' = "ret"
    /\ UNCHANGED << world, fsVars, run, fetchVars, parseVars, loopVars, err,
                    exitCode, stderr, panicAt, faults, fsHistory, snap >>

\* os.MkdirAll(targetDir(...), os.ModePerm): fails when a file is in the
\* way, or when the environment fails it.
MkdirAll ==
    /\ pc = "mkdir"
    /\ LET d == targetDir(ContractDir, Target, path) IN
       \E fault \in BOOLEAN :
          /\ fault => faults < MaxFaults
          /\ faults' = IF fault THEN faults + 1 ELSE faults
          /\ LET ok == ~fault /\ Ancestors(d) \cap DOMAIN files = {} IN
             /\ FsCall("mkdir", ok)
             /\ IF ok
                THEN dirs' = dirs \cup Ancestors(d) /\ pc' = "create" /\ err' = err
                ELSE dirs' = dirs /\ pc' = "ret" /\ err' = Err("mkdir", <<>>)
    /\ UNCHANGED << world, files, run, fetchVars, parseVars, loopVars, exitCode,
                    stderr, panicAt, snap >>

\* os.Create(targetPath(...)): creates or truncates; fails when the path is
\* a directory, or when the environment fails it.
Create ==
    /\ pc = "create"
    /\ LET p == targetPath(ContractDir, Target, path) IN
       \E fault \in BOOLEAN :
          /\ fault => faults < MaxFaults
          /\ faults' = IF fault THEN faults + 1 ELSE faults
          /\ LET ok == ~fault /\ p \notin dirs IN
             /\ FsCall("create", ok)
             /\ IF ok
                THEN files' = Created(files, p) /\ pc' = "write" /\ err' = err
                ELSE files' = files /\ pc' = "ret" /\ err' = Err("create", <<>>)
    /\ UNCHANGED << world, dirs, run, fetchVars, parseVars, loopVars, exitCode,
                    stderr, panicAt, snap >>

\* f.Write([]byte(source.Content)): the result of Write is dropped, and the
\* loop goes on; reading Content through a nil *Contract panics.
Write ==
    /\ pc = "write"
    /\ LET p == targetPath(ContractDir, Target, path)
           source == sourceCodes[bi].Sources[path]
       IN  IF source.nil
           THEN /\ panicAt' = "write"
                /\ ProcessEnds(2, <<>>, files, dirs)
                /\ UNCHANGED << files, faults, fsHistory >>
           ELSE /\ \E fault \in BOOLEAN :
                      /\ fault => faults < MaxFaults
                      /\ faults' = IF fault THEN faults + 1 ELSE faults
                      /\ FsCall("write", ~fault)
                      /\ files' = IF fault THEN files
                                  ELSE Written(files, p, source.Content)
                /\ pc' = "range"
                /\ UNCHANGED << exitCode, stderr, panicAt, snap >>
    /\ UNCHANGED << world, dirs, run, fetchVars, parseVars, loopVars, err >>

\* main(): run() returned; an error is printed and the exit status is 1.
Exit ==
    /\ pc = "ret"
    /\ IF err # NoErr
       THEN ProcessEnds(1, err.msg, files, dirs)
       ELSE ProcessEnds(0, <<>>, files, dirs)
    /\ UNCHANGED << world, fsVars, run, fetchVars, parseVars, loopVars, err,
                    panicAt, faults, fsHistory >>

\* The process is started again, on the same response and configuration.
Rerun ==
    /\ pc = "exited"
    /\ run < MaxRuns
    /\ run' = run + 1
    /\ RunStarts
    /\ UNCHANGED << world, fsVars, faults, snap >>

\* One step of a running process.
Step ==
    \/ LoadConfig
    \/ Fetch
    \/ FetchFails
    \/ Parse
    \/ NextPath
    \/ NextBundle
    \/ LoopsDone
    \/ MkdirAll
    \/ Create
    \/ Write
    \/ Exit

Next ==
    \/ Step
    \/ Rerun

Spec == Init /\ [][Next]_vars

\* Once run has returned, main goes on to report and to end the process:
\* nothing stands between the return and os.Exit.
FairSpec == Spec /\ WF_vars(Exit)

\* ------------------------------------------------------------------------
\* Properties.
\* ------------------------------------------------------------------------
\* parseContractCode was called in this run (it returned, or it panicked).
ParseCalled == parsed \/ panicAt = "parse"

\* The response decoded as an envelope whose status is the success sentinel.
SuccessEnvelope == received /\ ~decodeErr /\ response.Status = StatusOK

\* The response decoded as an envelope whose status is not the sentinel.
FailureEnvelope == received /\ ~decodeErr /\ response.Status # StatusOK

\* Entry i can be stripped and its stripped SourceCode decodes.
Structured(i) ==
    /\ ~rawCodes[i].nil
    /\ SliceInRange(rawCodes[i].SourceCode)
    /\ ~UnmarshalSourceCode(Strip(rawCodes[i].SourceCode)).err

\* Entry i can be stripped and its stripped SourceCode fails to decode.
Malformed(i) ==
    /\ ~rawCodes[i].nil
    /\ SliceInRange(rawCodes[i].SourceCode)
    /\ UnmarshalSourceCode(Strip(rawCodes[i].SourceCode)).err

\* The flat-source special case of parseContractCode applies.
FlatCase == Len(rawCodes) = 1 /\ rawCodes[1].IsOneSource

\* C1: for N >= 1 entries of a success envelope that all decode after the
\* strip, parseContractCode returns N bundles in entry order, the i-th with
\* exactly the sources of the i-th entry's document.
C1_OneBundlePerEntry ==
    ( /\ ParseCalled
      /\ SuccessEnvelope
      /\ Len(rawCodes) >= 1
      /\ \A i \in 1..Len(rawCodes) : Structured(i) )
    => /\ parsed
       /\ Len(sourceCodes) = Len(rawCodes)
       /\ \A i \in 1..Len(rawCodes) :
             sourceCodes[i].Sources =
                UnmarshalSourceCode(Strip(rawCodes[i].SourceCode)).val.Sources

\* C2: outside the flat-source special case, when the stripped SourceCode of
\* some entry fails to decode, parseContractCode returns the single bundle
\* {"main.sol": the first entry's unstripped SourceCode}.
C2_FallbackIsFirstEntry ==
    ( /\ ParseCalled
      /\ ~FlatCase
      /\ \E i \in 1..Len(rawCodes) : Malformed(i) )
    => /\ parsed
       /\ sourceCodes = << MainBundle(rawCodes[1].SourceCode) >>

\* C3: a body that does not decode as the envelope gives, without error,
\* the one entry (body, flag set), and parseContractCode makes of it the one
\* bundle {"main.sol": body}, the body not stripped and not decoded.
C3_FlatBody ==
    ( /\ received
      /\ decodeErr \/ body \in PlainBodies \cup NonEnvelopeBodies )
    => /\ err.kind \notin {"status", "transport"}
       /\ rawCodes = << RawCode(body, TRUE) >>
       /\ pc # "parse" => /\ parsed
                          /\ sourceCodes = << MainBundle(body) >>

\* C3's case: a body of text that is no envelope went through
\* parseContractCode.
C3_Witness ==
    /\ received
    /\ decodeErr
    /\ Len(body) >= 2
    /\ parsed
    /\ sourceCodes = << MainBundle(body) >>

\* While the envelope reports failure: the run is returning or over, it
\* never parsed, made no filesystem call, left no file or directory, and
\* the exit status of an ended process is 1 with the error on stderr.
C4_Stopped ==
    FailureEnvelope
    => /\ pc \in {"ret", "exited"}
       /\ ~ParseCalled
       /\ fsOps = 0
       /\ files = NoFiles /\ dirs = {}
       /\ err.kind = "status"
       /\ pc = "exited" => /\ exitCode = 1
                           /\ stderr = err.msg
                           /\ stderr # <<>>

\* C4: a run whose response is an envelope with a status other than "1"
\* never reaches the normalising or writing steps, creates and writes
\* nothing, reports the error and ends with a non-zero exit status.
C4_BadStatusStops ==
    /\ []C4_Stopped
    /\ [](FailureEnvelope => <>(pc = "exited" /\ exitCode = 1))

\* C4's case: the process ended on a failure envelope.
C4_Witness ==
    /\ FailureEnvelope
    /\ pc = "exited"
    /\ exitCode = 1

\* C5: on a failure envelope getRawContractCode returns no entries and an
\* error that carries the envelope's status and its message.
C5_ErrorCarriesStatusAndMessage ==
    FailureEnvelope
    => /\ rawCodes = <<>>
       /\ err.kind = "status"
       /\ Contains(err.msg, response.Status)
       /\ Contains(err.msg, response.Message)

\* C6: every bundle parseContractCode returns has at least one path.
C6_BundlesNotEmpty ==
    parsed => \A i \in 1..Len(sourceCodes) : DOMAIN sourceCodes[i].Sources # {}

\* C7: a failure of MkdirAll, Create or Write aborts the run at once: no
\* later filesystem call is made, and the run ends with an error and a
\* non-zero exit status.
C7_FsFailureAborts ==
    failed # "none"
    => /\ after = 0
       /\ pc \in {"ret", "exited"}
       /\ err # NoErr
       /\ pc = "exited" => exitCode # 0

\* C8: a second run on the same response and configuration, nothing in the
\* environment failing, leaves the files and their contents as the first
\* run left them.
C8_SecondRunSameFiles ==
    (run = 2 /\ pc = "exited" /\ faults = 0)
    => /\ files = snap.files
       /\ dirs = snap.dirs

\* C9: parseContractCode returns for every list of entries; it never
\* aborts the process.
C9_ParseReturns == ParseCalled => parsed

\* C10: an entry has its flat-source flag set only if the decoding of the
\* body as an envelope failed.
C10_FlagOnlyOnDecodeError ==
    received => \A i \in 1..Len(rawCodes) : rawCodes[i].IsOneSource => decodeErr

====
